---------------------------- MODULE Spec2Model ----------------------------
(***************************************************************************)
(* The scrape pipeline of maps-scraper: the POST /api/scrape handler.      *)
(*                                                                         *)
(* The repository holds four evolutions of the handler:                    *)
(*   "stall"  src/server.js 118-307        (re-query by index, lastName,   *)
(*                                          stall-detecting loadEnough)    *)
(*   "fast"   src/server.js 402-507        (cached handles, ceiling 50)    *)
(*   "email"  src/unnamed/part_000 118-271 (click fallback, email crawl)   *)
(*   "plain"  src/unnamed/part_001 118-250 (timeouts disabled)             *)
(* One request is followed from its arrival to its end; `variant' says     *)
(* which handler serves it.  Every `await' of the handler is one step, and *)
(* every awaited browser operation may resolve or reject.                  *)
(*                                                                         *)
(* JavaScript numbers that may be fractional (max, limit, take) are kept   *)
(* in halves: the number x is stored as 2*x, so 2.5 is 5 and 50 is 100.    *)
(***************************************************************************)
EXTENDS Integers, Sequences, FiniteSets

VARIABLES
    variant,    \* which handler serves the request
    req,        \* the request: authorization token, body.query, body.max
    pc,         \* position of the handler
    browser,    \* "none" (let browser;), "open" (launched), "closed"
    limit,      \* const limit (in halves)
    total,      \* number of listings the map page holds for the query
    feed,       \* names of those listings, in feed order (known from the loop on)
    loaded,     \* number of entries currently rendered in the feed
    stale,      \* TRUE once the feed re-rendered after the handles were taken
    tries,      \* loop counter of loadEnough (i / tries)
    n,          \* last count measured by loadEnough (n / num)
    seen,       \* loadEnough: seen
    stagnant,   \* loadEnough: stagnant
    unchanged,  \* history: consecutive measurements equal to the one before
    take,       \* const take (in halves)
    i,          \* index of the listing loop
    data,       \* const data = []
    lastName,   \* let lastName = null ("null" is written Null)
    name,       \* let name (stall handler)
    place,      \* const place: the fields read from the detail pane
    email,      \* let email (email handler)
    html,       \* const html: the matches of the address pattern, in order
    anchors,    \* the anchors of the homepage, in document order
    contactHref,\* const contactHref
    html2,      \* const html2
    visited,    \* history: the URLs site.goto was called with
    label,      \* aria-label of the button of the pane, as characters
    reviews,    \* let reviews / place.reviews / the reviews field pushed
    authority,  \* href of the authority anchor of the pane, as tokens
    website,    \* let website / place.website / the website field pushed
    hAt,        \* concurrent requests: the position of each handler call
    hFeed,      \* concurrent requests: the names of the listings of each query
    hBrowser,   \* concurrent requests: the variable  browser  of each scope
    hData,      \* concurrent requests: the array  data  of each scope
    hLastName,  \* concurrent requests: the variable  lastName  of each scope
    hPage,      \* concurrent requests: the browser instance of  page
    hI,         \* concurrent requests: the loop index of each handler call
    hResponse,  \* concurrent requests: what each call answered
    instances,  \* concurrent requests: the browser instances launched so far
    hGone,      \* concurrent requests: the calls whose caller has disconnected
    pane,       \* listing shown in the detail pane (0: no heading rendered)
    pending,    \* clicked listings whose detail pane is not rendered yet
    sitePages,  \* pages opened for email resolution and not closed
    response,   \* what res.json / res.status(401).json sent, NoResponse before
    resCount,   \* number of responses sent
    failed      \* history: the step of this request that failed last ("none")

vars == <<hAt, hFeed, hBrowser, hData, hLastName, hPage, hI, hResponse,
          instances, hGone, label, reviews, authority, website, html, anchors, contactHref, html2, visited, variant, req, pc, browser, limit, total, feed, loaded, stale, tries, n, seen,
          stagnant, unchanged, take, i, data, lastName, name, place, email,
          pane, pending, sitePages, response, resCount, failed>>

sessVars   == <<hAt, hFeed, hBrowser, hData, hLastName, hPage, hI, hResponse,
                instances, hGone>>
fieldVars  == <<label, reviews, authority, website>>
siteVars   == <<html, anchors, contactHref, html2, visited>>
loaderVars == <<tries, n, seen, stagnant, unchanged>>
loopVars   == <<take, i, data, lastName, name, place, email>>
paneVars   == <<pane, pending>>
feedVars   == <<total, feed, loaded, stale>>

-----------------------------------------------------------------------------
(* Bounds of the model *)

MaxFeed == 3          \* most listings the map page holds

Letters == <<"A", "B", "C">>
\* heading texts of listings ("" : empty heading)
Names == {""} \cup {Letters[r] : r \in DOMAIN Letters}

\* Heading texts are arbitrary labels: of the feeds that differ only by a
\* renaming of the labels, the one that uses them in order is kept.
InOrder(f) ==
    \A k \in DOMAIN f : \A r \in 2..Len(Letters) :
        f[k] = Letters[r] => \E j \in 1..(k - 1) : f[j] = Letters[r - 1]

Variants == {"stall", "fast", "email", "plain"}

Null == "null"        \* JavaScript null / undefined

-----------------------------------------------------------------------------
(* Numbers *)

Num(k) == 2 * k                       \* the integer k as a stored number
IsInteger(x) == x % 2 = 0
Min(a, b) == IF a <= b THEN a ELSE b

\* The listings a loop of  take  iterations can open (take in halves).
Opened(count, tk) == Min(count, IF tk > 0 THEN (tk + 1) \div 2 ELSE 0)

DefaultMax == 20      \* { query, max = 20 } and Number(max) || 20

\* Values of body.max: absent, not numeric ("abc" -> NaN), or a number.
Absent == [kind |-> "absent", h |-> 0]
NaN    == [kind |-> "nan", h |-> 0]
Number(h) == [kind |-> "num", h |-> h]

MaxInputs ==
    {Absent, NaN}
    \cup {Number(h) : h \in {-2, 0, 5}}                  \* -1, 0, 2.5
    \cup {Number(Num(k)) : k \in 1..MaxFeed}
    \cup {Number(Num(k)) : k \in {5, 101}}

\* Number(max) || 20 : undefined takes the default, NaN and 0 are falsy.
NumberOrDefault(max) ==
    IF max.kind = "num" /\ max.h # 0 THEN max.h ELSE Num(DefaultMax)

\* The ceiling of Math.min(Number(max) || 20, ceiling).
Ceiling(v) == IF v = "fast" THEN 50 ELSE 100

\* const limit = Math.min(Number(max) || 20, ceiling)
Limit(v, max) == Min(NumberOrDefault(max), Num(Ceiling(v)))

-----------------------------------------------------------------------------
(* Requests and responses *)

Tokens  == {"none", "invalid", "valid"}
Queries == {Null, "", "coffee shops"}

NoRequest == [token |-> "none", query |-> Null, max |-> Absent]

NoResponse == [status |-> 0, success |-> FALSE, hasResults |-> FALSE,
               results |-> <<>>, message |-> ""]

\* res.status(401).json({success:false, message})
Unauthorized(msg) == [status |-> 401, success |-> FALSE, hasResults |-> FALSE,
                      results |-> <<>>, message |-> msg]

\* (mutant) the error response also returns the records gathered so far
FailureWithData(msg) == [status |-> 200, success |-> FALSE, hasResults |-> TRUE,
                         results |-> data, message |-> msg]

\* res.json({ success: false, message })
Failure(msg) == [status |-> 200, success |-> FALSE, hasResults |-> FALSE,
                 results |-> <<>>, message |-> msg]

\* res.json({ success: true, results: data })
Success(d) == [status |-> 200, success |-> TRUE, hasResults |-> TRUE,
               results |-> d, message |-> ""]

\* (mutant) only an absent query is rejected: if (query === undefined)
QueryMissingAbsentOnly(q) == q = Null

\* if (!query) : undefined, null and "" are falsy
QueryMissing(q) == q = Null \/ q = ""

-----------------------------------------------------------------------------
(* Timeouts (milliseconds; 0 disables the timeout in puppeteer) *)

GotoTimeout(v) ==
    CASE v = "stall" -> 120000
      [] v = "fast"  -> 60000
      [] v = "email" -> 120000
      [] v = "plain" -> 0

FeedTimeout(v) == IF v = "email" THEN 30000 ELSE 60000

HeadingTimeout(v) ==
    CASE v = "stall" -> 15000
      [] v = "fast"  -> 15000
      [] v = "plain" -> 8000
      [] v = "email" -> 2000      \* sleep(2000), no selector wait

SiteTimeout == 20000

\* The timeout of the wait the handler is suspended in.
TimeoutInForce ==
    CASE pc = "goto"     -> GotoTimeout(variant)
      [] pc = "waitFeed" -> FeedTimeout(variant)
      [] pc = "heading"  -> HeadingTimeout(variant)
      [] pc \in {"siteHome", "siteContact"} -> SiteTimeout
      [] OTHER -> 1

SuspendPoints == {"goto", "waitFeed", "heading", "siteHome", "siteContact"}

-----------------------------------------------------------------------------
(* Failure of an awaited step *)

\* The try block of the stall handler has neither catch nor finally: a
\* rejection leaves the handler (no response, no close).  The other handlers
\* run catch (err) and enter finally.
HasCatch(v) == v # "stall"

\* catch (err) { res.json({ success: false, message: err.message }); }
\* finally { if (browser) await browser.close()...   (the close is awaited)
Throw(step) ==
    /\ failed' = step
    /\ IF HasCatch(variant)
         THEN /\ response' = Failure(step)
              /\ resCount' = resCount + 1
              /\ pc' = "finally"
         ELSE /\ pc' = "rejected"
              /\ UNCHANGED <<response, resCount>>

NoReply == UNCHANGED <<response, resCount>>

Terminal == {"done", "rejected"}

-----------------------------------------------------------------------------
\* const place before it is read
NoPlace == [name |-> "", src |-> 0, website |-> ""]

\* No other call of the handler is followed.
NoSessions ==
    /\ hAt = <<>>
    /\ hFeed = <<>>
    /\ hBrowser = <<>>
    /\ hData = <<>>
    /\ hLastName = <<>>
    /\ hPage = <<>>
    /\ hI = <<>>
    /\ hResponse = <<>>
    /\ instances = <<>>
    /\ hGone = {}

Init ==
    /\ NoSessions
    /\ variant \in Variants
    /\ req = NoRequest
    /\ pc = "idle"
    /\ browser = "none"
    /\ limit = 0
    /\ total = 0
    /\ feed = <<>>
    /\ loaded = 0
    /\ stale = FALSE
    /\ tries = 0
    /\ n = 0
    /\ seen = 0
    /\ stagnant = 0
    /\ unchanged = 0
    /\ take = 0
    /\ i = 0
    /\ data = <<>>
    /\ lastName = Null
    /\ name = ""
    /\ place = NoPlace
    /\ email = Null
    /\ html = <<>>
    /\ anchors = <<>>
    /\ contactHref = Null
    /\ html2 = <<>>
    /\ visited = <<>>
    /\ label = Null
    /\ reviews = Null
    /\ authority = Null
    /\ website = Null
    /\ pane = 0
    /\ pending = <<>>
    /\ sitePages = 0
    /\ response = NoResponse
    /\ resCount = 0
    /\ failed = "none"

\* A request arrives.
Request ==
    /\ pc = "idle"
    /\ \E t \in Tokens, q \in Queries, m \in MaxInputs :
          req' = [token |-> t, query |-> q, max |-> m]
    /\ pc' = "auth"
    /\ UNCHANGED <<sessVars, fieldVars, siteVars, variant, browser, limit, feedVars, loaderVars, loopVars,
                   paneVars, sitePages, response, resCount, failed>>

\* function auth(req,res,next)
Auth ==
    /\ pc = "auth"
    /\ IF req.token = "valid"
         THEN /\ pc' = "validate"
              /\ UNCHANGED <<response, resCount>>
         ELSE /\ response' = Unauthorized(IF req.token = "none" THEN "No token"
                                          ELSE "Invalid token")
              /\ resCount' = resCount + 1
              /\ pc' = "done"
    /\ UNCHANGED <<sessVars, fieldVars, siteVars, variant, req, browser, limit, feedVars, loaderVars, loopVars,
                   paneVars, sitePages, failed>>

\* const { query, max = 20 } = req.body; if (!query) return res.json(...);
\* const limit = Math.min(Number(max) || 20, ceiling);
Validate ==
    /\ pc = "validate"
    /\ IF QueryMissing(req.query)
         THEN /\ response' = Failure("query is required")
              /\ resCount' = resCount + 1
              /\ pc' = "done"
              /\ UNCHANGED limit
         ELSE /\ limit' = Limit(variant, req.max)
              /\ pc' = "launch"
              /\ UNCHANGED <<response, resCount>>
    /\ UNCHANGED <<sessVars, fieldVars, siteVars, variant, req, browser, feedVars, loaderVars, loopVars,
                   paneVars, sitePages, failed>>

\* browser = await puppeteer.launch({...})
Launch ==
    /\ pc = "launch"
    /\ \/ /\ browser' = "open"
          /\ pc' = "newPage"
          /\ NoReply
          /\ UNCHANGED failed
       \/ /\ Throw("launch")
          /\ UNCHANGED browser
    /\ UNCHANGED <<sessVars, fieldVars, siteVars, variant, req, limit, feedVars, loaderVars, loopVars,
                   paneVars, sitePages>>

\* const page = await browser.newPage(); page.setDefault...Timeout(...)
NewPage ==
    /\ pc = "newPage"
    /\ \/ /\ pc' = "goto"
          /\ NoReply
          /\ UNCHANGED failed
       \/ Throw("newPage")
    /\ UNCHANGED <<sessVars, fieldVars, siteVars, variant, req, browser, limit, feedVars, loaderVars, loopVars,
                   paneVars, sitePages>>

\* await page.goto(mapsUrl, { waitUntil: "domcontentloaded", timeout })
\* The page loads, the navigation fails, or the timeout (if any) fires.  A
\* page that never answers takes none of these steps.
Goto ==
    /\ pc = "goto"
    /\ \/ /\ pc' = IF variant = "stall" THEN "consent" ELSE "waitFeed"
          /\ NoReply
          /\ UNCHANGED failed
       \/ Throw("goto")
       \/ /\ TimeoutInForce > 0
          /\ Throw("gotoTimeout")
    /\ UNCHANGED <<sessVars, fieldVars, siteVars, variant, req, browser, limit, feedVars, loaderVars, loopVars,
                   paneVars, sitePages>>

\* try { await page.waitForSelector(consent, { timeout: 5000 }); await
\* page.evaluate(click) } catch {}   (stall handler only; best effort)
Consent ==
    /\ pc = "consent"
    /\ pc' = "waitFeed"
    /\ UNCHANGED <<sessVars, fieldVars, siteVars, variant, req, browser, limit, feedVars, loaderVars, loopVars,
                   paneVars, sitePages, response, resCount, failed>>

\* await page.waitForSelector("div[role='feed']", { timeout })
\* The feed appears with some of its entries rendered, or the wait times out.
\* The page holds up to MaxFeed listings for the query.
WaitFeed ==
    /\ pc = "waitFeed"
    /\ \/ /\ \E t \in 0..MaxFeed : \E k \in 0..t :
                /\ total' = t
                /\ loaded' = k
          /\ pc' = "measure"
          /\ NoReply
          /\ UNCHANGED <<feed, stale, failed>>
       \/ /\ TimeoutInForce > 0
          /\ Throw("feed")
          /\ UNCHANGED feedVars
    /\ UNCHANGED <<sessVars, fieldVars, siteVars, variant, req, browser, limit, loaderVars, loopVars, paneVars,
                   sitePages>>

-----------------------------------------------------------------------------
(* loadEnough(count) *)

\* for (let i = 0; i < 40; i++) / tries < 20 / tries < 15
LoadTries(v) ==
    CASE v = "stall" -> 40
      [] v = "fast"  -> 15
      [] v = "email" -> 20
      [] v = "plain" -> 20

StallLimit == 6       \* if (stagnant >= 6) return;

\* (mutant) the loader returns only above the target: if (n > count) return;
EnoughAbove(num, count) == Num(num) > count

\* if (n >= count) return;   (count is the limit, in halves)
Enough(num, count) == Num(num) >= count

\* The locals of loadEnough end with the call.
Return ==
    /\ tries' = 0
    /\ n' = 0
    /\ seen' = 0
    /\ stagnant' = 0
    /\ unchanged' = 0

\* const n = await page.$$eval(selector, els => els.length);
\* if (n >= count) return / break;
Measure ==
    /\ pc = "measure"
    /\ \/ /\ IF Enough(loaded, limit)
                THEN /\ Return
                     /\ pc' = "take"
                ELSE /\ n' = loaded
                     /\ unchanged' = IF tries > 0 /\ loaded = n
                                       THEN unchanged + 1 ELSE 0
                     /\ pc' = "scroll"
                     /\ UNCHANGED <<tries, seen, stagnant>>
          /\ NoReply
          /\ UNCHANGED failed
       \/ /\ Throw("load")
          /\ Return
    /\ UNCHANGED <<sessVars, fieldVars, siteVars, variant, req, browser, limit, feedVars, loopVars, paneVars,
                   sitePages>>

\* stall handler: if (n === seen) stagnant++; else stagnant = 0;
NextStagnant(v, num, sn, st) ==
    IF v = "stall" THEN (IF num = sn THEN st + 1 ELSE 0) ELSE st

\* stall handler: if (stagnant >= 6) return;   the others have no such exit
Stalled(v, st) == v = "stall" /\ st >= StallLimit

\* await page.evaluate(scrollBy); await sleep(...); then the end of the loop
\* body.  The scroll may make the feed render more of its entries.
Scroll ==
    /\ pc = "scroll"
    /\ \/ /\ \E k \in loaded..total : loaded' = k
          /\ LET st == NextStagnant(variant, n, seen, stagnant) IN
                IF Stalled(variant, st) \/ tries + 1 >= LoadTries(variant)
                  THEN /\ Return
                       /\ pc' = "take"
                  ELSE /\ stagnant' = st
                       /\ seen' = IF variant = "stall" THEN n ELSE seen
                       /\ tries' = tries + 1
                       /\ pc' = "measure"
                       /\ UNCHANGED <<n, unchanged>>
          /\ NoReply
          /\ UNCHANGED failed
       \/ /\ Throw("load")
          /\ Return
          /\ UNCHANGED loaded
    /\ UNCHANGED <<sessVars, fieldVars, siteVars, variant, req, browser, limit, total, feed, stale, loopVars,
                   paneVars, sitePages>>

-----------------------------------------------------------------------------
(* The listing loop *)

\* (mutant) every loaded entry is taken: const take = items.length
TakeAll(count, lim) == Num(count)

\* Math.min(count, limit)
Take(count, lim) == Min(Num(count), lim)

\* for (let i = 0; i < take; i++)
InLoop(idx, tk) == Num(idx) < tk

\* The loop goes on with index idx, or ends and the handler answers
\* res.json({ success: true, results: data }) and starts closing the browser.
LoopOrRespond(idx, tk, d) ==
    IF InLoop(idx, tk)
      THEN /\ pc' = "click"
           /\ NoReply
      ELSE /\ response' = Success(d)
           /\ resCount' = resCount + 1
           /\ pc' = "finally"

\* const take = Math.min(await page.$$eval(...length), limit)   (stall)
\* const items = await page.$$(sel); const take = Math.min(items.length, limit)
\* const data = []; let lastName = null;
\* From here on the listings are opened, so their names matter: each of the
\* listings the loop can open has a heading text.
TakeStep ==
    /\ pc = "take"
    /\ \/ /\ take' = Take(loaded, limit)
          /\ i' = 0
          /\ data' = <<>>
          /\ lastName' = Null
          /\ feed' \in {f \in [1..Opened(total, take') -> Names] : InOrder(f)}
          /\ LoopOrRespond(0, take', <<>>)
          /\ UNCHANGED failed
       \/ /\ Throw("take")
          /\ UNCHANGED <<take, i, data, lastName, feed>>
    /\ UNCHANGED <<sessVars, fieldVars, siteVars, variant, req, browser, limit, total, loaded, stale, loaderVars,
                   name, place, email, paneVars, sitePages>>

LoopPcs == {"click", "heading", "extract", "siteNew", "siteHome", "siteContact",
            "siteClose"}

\* The feed re-renders between two selections: handles taken before are
\* detached, and fewer entries may be rendered (nothing scrolls the feed any
\* more, so it renders no more of them).
FeedRerender ==
    /\ pc = "click"
    /\ ~stale
    /\ stale' = TRUE
    /\ \E k \in 0..loaded : loaded' = k
    /\ UNCHANGED <<sessVars, fieldVars, siteVars, variant, req, pc, browser, limit, total, feed, loaderVars, loopVars,
                   paneVars, sitePages, response, resCount, failed>>

\* The detail pane renders a listing that was clicked (a later click may
\* supersede earlier ones).  The pane is read only by the heading wait and by
\* the extraction, so a rendering is placed right before one of them.
PaneRender ==
    /\ pc \in {"heading", "extract"}
    /\ \E k \in 1..Len(pending) :
          /\ pane' = pending[k]
          /\ pending' = SubSeq(pending, k + 1, Len(pending))
    /\ UNCHANGED <<sessVars, fieldVars, siteVars, variant, req, pc, browser, limit, feedVars, loaderVars,
                   loopVars, sitePages, response, resCount, failed>>

\* continue; / the end of the loop body, data being d
EndIteration(d) ==
    /\ data' = d
    /\ i' = i + 1
    /\ name' = ""
    /\ place' = NoPlace
    /\ email' = Null
    /\ LoopOrRespond(i + 1, take, d)

SameIteration == UNCHANGED <<i, data, name, place, email>>

\* The entry clicked at index idx: the element at that index of the live list
\* (stall handler, and the fallback of the email handler), if there is one.
ClickByIndex(idx) ==
    IF idx < loaded THEN pending' = Append(pending, idx + 1)
                    ELSE UNCHANGED pending

\* stall:  clicked = await page.evaluate(re-query, click); if (!clicked) continue;
\*         await page.waitForTimeout(1500);
\* fast, plain:  await items[i].click();
\* email:  try { await items[i].click() } catch { await page.evaluate(re-query) }
\*         await sleep(2000);
\* A handle taken before a re-render of the feed is detached: its click rejects
\* ("detached"); a click may also reject for any other reason ("click").  The
\* email handler drops the reason in its catch (e) and falls back either way.
Click ==
    /\ pc = "click"
    /\ \/ /\ variant = "stall"
          /\ \/ /\ ClickByIndex(i)
                /\ IF i < loaded
                     THEN /\ pc' = "heading"
                          /\ NoReply
                          /\ SameIteration
                     ELSE EndIteration(data)
                /\ UNCHANGED failed
             \/ /\ Throw("click")
                /\ UNCHANGED pending
                /\ SameIteration
       \/ /\ variant \in {"fast", "plain"}
          /\ \/ /\ ~stale
                /\ pending' = Append(pending, i + 1)
                /\ pc' = "heading"
                /\ NoReply
                /\ UNCHANGED failed
             \/ /\ stale
                /\ Throw("detached")
                /\ UNCHANGED pending
             \/ /\ Throw("click")
                /\ UNCHANGED pending
          /\ SameIteration
       \/ /\ variant = "email"
          /\ \/ /\ ~stale
                /\ pending' = Append(pending, i + 1)
                /\ pc' = "extract"
                /\ NoReply
                /\ UNCHANGED failed
             \/ /\ ClickByIndex(i)
                /\ pc' = "extract"
                /\ NoReply
                /\ failed' = "click"
             \/ /\ Throw("click")
                /\ UNCHANGED pending
          /\ SameIteration
    /\ UNCHANGED <<sessVars, fieldVars, siteVars, variant, req, browser, limit, feedVars, loaderVars, take,
                   lastName, pane, sitePages>>

\* textContent.trim() of the heading in the detail pane ("" without a heading)
PaneName == IF pane = 0 THEN "" ELSE feed[pane]

\* if (!name || name === lastName) { continue; }
Skipped(nm, last) == nm = "" \/ nm = last

\* stall:  try { await page.waitForSelector(h1, {timeout: 15000});
\*               name = await page.evaluate(...) } catch { continue; }
\*         if (!name || name === lastName) continue;  lastName = name;
\* plain:  await page.waitForSelector("h1 span", {timeout: 8000}).catch(() => {});
\* fast:   await page.waitForSelector(h1, { timeout: 15000 });
\* The wait is satisfied by any heading in the pane and times out without one.
Heading ==
    /\ pc = "heading"
    /\ \/ /\ variant = "stall"
          /\ \/ /\ pane # 0
                /\ IF Skipped(PaneName, lastName)
                     THEN /\ EndIteration(data)
                          /\ UNCHANGED lastName
                     ELSE /\ name' = PaneName
                          /\ lastName' = PaneName
                          /\ pc' = "extract"
                          /\ NoReply
                          /\ UNCHANGED <<i, data, place, email>>
                /\ UNCHANGED failed
             \/ /\ pane = 0
                /\ TimeoutInForce > 0
                /\ EndIteration(data)
                /\ failed' = "heading"
                /\ UNCHANGED lastName
             \/ /\ pane # 0
                /\ EndIteration(data)
                /\ failed' = "nameRead"
                /\ UNCHANGED lastName
       \/ /\ variant = "plain"
          /\ \/ /\ pane # 0
                /\ UNCHANGED failed
             \/ /\ pane = 0
                /\ TimeoutInForce > 0
                /\ failed' = "heading"
          /\ pc' = "extract"
          /\ NoReply
          /\ SameIteration
          /\ UNCHANGED lastName
       \/ /\ variant = "fast"
          /\ \/ /\ pane # 0
                /\ pc' = "extract"
                /\ NoReply
                /\ UNCHANGED failed
             \/ /\ pane = 0
                /\ TimeoutInForce > 0
                /\ Throw("heading")
          /\ SameIteration
          /\ UNCHANGED lastName
    /\ UNCHANGED <<sessVars, fieldVars, siteVars, variant, req, browser, limit, feedVars, loaderVars, take,
                   paneVars, sitePages>>

\* href of a[data-item-id="authority"] in the pane of listing k: every other
\* listing has a website, a pane without heading has none.
Website(k) == IF k % 2 = 1 THEN "https://acme.test/" ELSE ""

\* data.push({ name: place.name || "", email: email || "", ... })
Record(pl, em) ==
    [name |-> pl.name, src |-> pl.src, website |-> pl.website,
     email |-> IF em = Null THEN "" ELSE em]

Push(pl, em) == EndIteration(Append(data, Record(pl, em)))

\* const place = await page.evaluate(read the fields of the detail pane);
\* then data.push(...) (email handler: the email is resolved first)
Extract ==
    /\ pc = "extract"
    /\ \/ /\ LET pl == [name |-> PaneName, src |-> pane,
                        website |-> Website(pane)] IN
                IF variant = "email" /\ pl.website # ""
                  THEN /\ place' = pl
                       /\ email' = Null
                       /\ pc' = "siteNew"
                       /\ NoReply
                       /\ UNCHANGED <<i, name, data>>
                  ELSE Push(pl, Null)
          /\ UNCHANGED failed
       \/ /\ Throw("extract")
          /\ SameIteration
    /\ UNCHANGED <<sessVars, fieldVars, siteVars, variant, req, browser, limit, feedVars, loaderVars, take,
                   lastName, paneVars, sitePages>>

-----------------------------------------------------------------------------
(* Email resolution (email handler) *)

\* Addresses the pattern /[a-zA-Z0-9._%+-]+@[a-zA-Z0-9.-]+\.[a-zA-Z]{2,}/g
\* matches in a page.
Addresses == {"info@example.com", "Info@EXAMPLE.com", "sales@realbiz.com",
              "hi@acme.test"}

\* e.toLowerCase()
ToLowerCase(e) == IF e = "Info@EXAMPLE.com" THEN "info@example.com" ELSE e

\* s.includes("example.")   (a case-sensitive substring test)
IncludesExample(s) == s = "info@example.com"

\* (mutant) the test is made on the address as written
ContainsExampleAsWritten(e) == IncludesExample(e)

\* e.toLowerCase().includes("example.")
ContainsExample(e) == IncludesExample(ToLowerCase(e))

\* The addresses met on the websites of the listings.
Candidates == {"info@example.com", "sales@realbiz.com"}

MaxMatches == 2       \* most matches in one page

\* html.match(pattern): the matches in order of appearance
Htmls == UNION {[1..k -> Candidates] : k \in 0..MaxMatches}

\* Array.from(new Set(matches)): first occurrences, in order
RECURSIVE Uniq(_)
Uniq(ms) ==
    IF ms = <<>> THEN <<>>
    ELSE LET init == Uniq(SubSeq(ms, 1, Len(ms) - 1))
             last == ms[Len(ms)]
         IN IF \E k \in 1..Len(init) : init[k] = last
              THEN init ELSE Append(init, last)

\* function extractEmailFromHtml(html)
extractEmailFromHtml(ms) ==
    IF ms = <<>> THEN Null
    ELSE LET uniq == SelectSeq(Uniq(ms), LAMBDA e : ~ContainsExample(e))
         IN IF uniq = <<>> THEN Null ELSE uniq[1]

\* email = extractEmailFromHtml(await site.content()): what a page can yield
Extracted == {extractEmailFromHtml(ms) : ms \in Htmls}

MaxAnchors == 2       \* most anchors in a homepage

\* An anchor of the homepage: its text and its href attribute (Null without)
Texts == {"Contact Us", "Our story"}
Hrefs == {Null, "", "/contact", "/about-us"}
Anchors == [text : Texts, href : Hrefs]
AnchorLists == UNION {[1..k -> Anchors] : k \in 0..MaxAnchors}

\* /contact|support|about/i.test(a.textContent || "")
TextSuggests(t) == t = "Contact Us"

\* /contact|support/i.test(a.getAttribute("href") || "")
HrefSuggests(h) == h = "/contact"

\* anchors.find(a => text test || href test): the first such anchor
IsCand(a) == TextSuggests(a.text) \/ HrefSuggests(a.href)

\* return cand ? cand.getAttribute("href") || "" : null;
ContactHref(as) ==
    LET found == {k \in 1..Len(as) : IsCand(as[k])} IN
      IF found = {} THEN Null
      ELSE LET cand == as[CHOOSE k \in found : \A j \in found : k <= j]
           IN IF cand.href = Null THEN "" ELSE cand.href

\* what the lookup of the contact link can return
ContactHrefs == {ContactHref(as) : as \in AnchorLists}

\* new URL(contactHref, site.url()).href
Resolved(href, base) == [base |-> base, path |-> href]

\* if (contactHref)
Truthy(s) == s # Null /\ s # ""

\* (mutant) the email block has no catch of its own: the failure reaches the
\* catch of the handler
SiteCatchRethrows(step) ==
    /\ Throw(step)
    /\ SameIteration

\* catch (e) {} of the email block: the listing is pushed with the email
\* resolved so far
SiteCatch(step) ==
    /\ Push(place, email)
    /\ failed' = step

\* const site = await browser.newPage();
SiteNew ==
    /\ pc = "siteNew"
    /\ \/ /\ sitePages' = sitePages + 1
          /\ pc' = "siteHome"
          /\ NoReply
          /\ SameIteration
          /\ UNCHANGED failed
       \/ /\ SiteCatch("site")
          /\ UNCHANGED sitePages
    /\ UNCHANGED <<sessVars, fieldVars, siteVars, variant, req, browser, limit, feedVars, loaderVars, take,
                   lastName, paneVars>>

\* await site.goto(place.website, {timeout: 20000}); html = await site.content();
\* email = extractEmailFromHtml(html); if (!email) contactHref = await site.evaluate
SiteHome ==
    /\ pc = "siteHome"
    /\ \/ /\ \E em \in Extracted, href \in ContactHrefs :
                /\ email' = em
                /\ pc' = IF em = Null /\ Truthy(href)
                           THEN "siteContact" ELSE "siteClose"
          /\ NoReply
          /\ UNCHANGED <<i, name, place, data, failed>>
       \/ SiteCatch("site")
    /\ UNCHANGED <<sessVars, fieldVars, siteVars, variant, req, browser, limit, feedVars, loaderVars, take,
                   lastName, paneVars, sitePages>>

\* const url = new URL(contactHref, site.url()).href; await site.goto(url, ...);
\* const html2 = await site.content(); email = extractEmailFromHtml(html2);
SiteContact ==
    /\ pc = "siteContact"
    /\ \/ /\ \E em \in Extracted : email' = em
          /\ pc' = "siteClose"
          /\ NoReply
          /\ UNCHANGED <<i, name, place, data, failed>>
       \/ SiteCatch("site")
    /\ UNCHANGED <<sessVars, fieldVars, siteVars, variant, req, browser, limit, feedVars, loaderVars, take,
                   lastName, paneVars, sitePages>>

\* await site.close();  then data.push(...)
SiteClose ==
    /\ pc = "siteClose"
    /\ \/ /\ sitePages' = sitePages - 1
          /\ Push(place, email)
          /\ UNCHANGED failed
       \/ /\ SiteCatch("siteClose")
          /\ UNCHANGED sitePages
    /\ UNCHANGED <<sessVars, fieldVars, siteVars, variant, req, browser, limit, feedVars, loaderVars, take,
                   lastName, paneVars>>

-----------------------------------------------------------------------------
(* The end of the handler *)

\* if (browser) await browser.close().catch(() => {});
\* (in finally; in the stall handler it is the last statement of the try
\* block).  Closing the browser closes its pages.
Close ==
    /\ pc = "finally"
    /\ IF browser = "open"
         THEN /\ browser' = "closed"
              /\ pane' = 0
              /\ pending' = <<>>
              /\ sitePages' = 0
         ELSE UNCHANGED <<browser, pane, pending, sitePages>>
    /\ pc' = "done"
    /\ UNCHANGED <<sessVars, fieldVars, siteVars, variant, req, limit, feedVars, loaderVars, loopVars, response,
                   resCount, failed>>

\* Every step of the handler.
Next ==
    \/ Request \/ Auth \/ Validate \/ Launch \/ NewPage \/ Goto \/ Consent
    \/ WaitFeed \/ Measure \/ Scroll \/ TakeStep \/ FeedRerender \/ PaneRender
    \/ Click \/ Heading \/ Extract \/ SiteNew \/ SiteHome \/ SiteContact
    \/ SiteClose \/ Close

Spec == Init /\ [][Next]_vars

-----------------------------------------------------------------------------
(* extractEmailFromHtml on its own: the function applied to a markup *)

MaxMarkup == 3        \* most matches in the markup handed to the function

Markups == UNION {[1..k -> Addresses] : k \in 0..MaxMarkup}

ResolverInit ==
    /\ NoSessions
    /\ html \in Markups
    /\ label = Null
    /\ reviews = Null
    /\ authority = Null
    /\ website = Null
    /\ anchors = <<>>
    /\ contactHref = Null
    /\ html2 = <<>>
    /\ visited = <<>>
    /\ pc = "html"
    /\ variant = "email"
    /\ req = NoRequest
    /\ browser = "none"
    /\ limit = 0
    /\ total = 0
    /\ feed = <<>>
    /\ loaded = 0
    /\ stale = FALSE
    /\ tries = 0
    /\ n = 0
    /\ seen = 0
    /\ stagnant = 0
    /\ unchanged = 0
    /\ take = 0
    /\ i = 0
    /\ data = <<>>
    /\ lastName = Null
    /\ name = ""
    /\ place = NoPlace
    /\ email = Null
    /\ pane = 0
    /\ pending = <<>>
    /\ sitePages = 0
    /\ response = NoResponse
    /\ resCount = 0
    /\ failed = "none"

\* email = extractEmailFromHtml(html);
Resolve ==
    /\ pc = "html"
    /\ email' = extractEmailFromHtml(html)
    /\ pc' = "email"
    /\ UNCHANGED <<sessVars, fieldVars, html, anchors, contactHref, html2, visited,
                   variant, req, browser, limit, feedVars, loaderVars, take, i, data,
                   lastName, name, place, paneVars, sitePages, response,
                   resCount, failed>>

ResolverSpec == ResolverInit /\ [][Resolve]_vars

-----------------------------------------------------------------------------
(* The email block of the email handler for one listing with a website, the  *)
(* contents of the pages kept in the state.                                  *)

\* let email = null; if (place.website) { try {
SiteInit ==
    /\ NoSessions
    /\ variant = "email"
    /\ req = [token |-> "valid", query |-> "coffee shops", max |-> Absent]
    /\ pc = "siteNew"
    /\ browser = "open"
    /\ limit = Limit("email", Absent)
    /\ total = 1
    /\ feed = <<"A">>
    /\ loaded = 1
    /\ stale = FALSE
    /\ tries = 0
    /\ n = 0
    /\ seen = 0
    /\ stagnant = 0
    /\ unchanged = 0
    /\ take = Num(1)
    /\ i = 0
    /\ data = <<>>
    /\ lastName = Null
    /\ name = ""
    /\ place = [name |-> "A", src |-> 1, website |-> Website(1)]
    /\ email = Null
    /\ html = <<>>
    /\ anchors = <<>>
    /\ contactHref = Null
    /\ html2 = <<>>
    /\ visited = <<>>
    /\ label = Null
    /\ reviews = Null
    /\ authority = Null
    /\ website = Null
    /\ pane = 1
    /\ pending = <<>>
    /\ sitePages = 0
    /\ response = NoResponse
    /\ resCount = 0
    /\ failed = "none"

listingVars == <<sessVars, fieldVars, variant, req, browser, limit, feedVars, loaderVars, take, i,
                 lastName, name, place, paneVars, response, resCount>>

\* } catch (e) {}
SiteFails(step) ==
    /\ failed' = step
    /\ pc' = "push"

\* const site = await browser.newPage();
SiteOpen ==
    /\ pc = "siteNew"
    /\ \/ /\ sitePages' = sitePages + 1
          /\ pc' = "siteHome"
          /\ UNCHANGED failed
       \/ /\ SiteFails("site")
          /\ UNCHANGED sitePages
    /\ UNCHANGED <<listingVars, siteVars, email, data>>

\* await site.goto(place.website, { waitUntil: "domcontentloaded", timeout: 20000 });
\* const html = await site.content();
SiteGoto ==
    /\ pc = "siteHome"
    /\ visited' = Append(visited, place.website)
    /\ \/ /\ html' \in Htmls
          /\ anchors' \in AnchorLists
          /\ pc' = "siteScan"
          /\ UNCHANGED failed
       \/ /\ SiteFails("site")
          /\ UNCHANGED <<html, anchors>>
    /\ UNCHANGED <<listingVars, contactHref, html2, email, data, sitePages>>

\* email = extractEmailFromHtml(html);
\* if (!email) { const contactHref = await site.evaluate(...); if (contactHref) {
SiteScan ==
    /\ pc = "siteScan"
    /\ email' = extractEmailFromHtml(html)
    /\ \/ /\ IF email' = Null
                THEN /\ contactHref' = ContactHref(anchors)
                     /\ pc' = IF Truthy(contactHref') THEN "siteContact"
                                                      ELSE "siteClose"
                ELSE /\ pc' = "siteClose"
                     /\ UNCHANGED contactHref
          /\ UNCHANGED failed
       \/ /\ email' = Null
          /\ SiteFails("site")
          /\ UNCHANGED contactHref
    /\ UNCHANGED <<listingVars, html, anchors, html2, visited, data, sitePages>>

\* const url = new URL(contactHref, site.url()).href;
\* await site.goto(url, {...}); const html2 = await site.content();
\* email = extractEmailFromHtml(html2);
SiteFollow ==
    /\ pc = "siteContact"
    /\ \/ /\ visited' = Append(visited, Resolved(contactHref, visited[Len(visited)]))
          /\ \/ /\ html2' \in Htmls
                /\ email' = extractEmailFromHtml(html2')
                /\ pc' = "siteClose"
                /\ UNCHANGED failed
             \/ /\ SiteFails("site")
                /\ UNCHANGED <<html2, email>>
       \/ /\ SiteFails("site")
          /\ UNCHANGED <<visited, html2, email>>
    /\ UNCHANGED <<listingVars, html, anchors, contactHref, data, sitePages>>

\* await site.close();
SiteShut ==
    /\ pc = "siteClose"
    /\ \/ /\ sitePages' = sitePages - 1
          /\ pc' = "push"
          /\ UNCHANGED failed
       \/ /\ SiteFails("siteClose")
          /\ UNCHANGED sitePages
    /\ UNCHANGED <<listingVars, siteVars, email, data>>

\* data.push({ name: place.name || "", email: email || "", ... });
SitePush ==
    /\ pc = "push"
    /\ data' = Append(data, Record(place, email))
    /\ pc' = "pushed"
    /\ UNCHANGED <<listingVars, siteVars, email, sitePages, failed>>

SiteNext ==
    \/ SiteOpen \/ SiteGoto \/ SiteScan \/ SiteFollow \/ SiteShut \/ SitePush

SiteSpec == SiteInit /\ [][SiteNext]_vars

-----------------------------------------------------------------------------
(* The fields read from the detail pane: the review count *)

\* The state of the handler outside the reading of one field.
pipelineVars == <<siteVars, variant, req, browser, limit, feedVars, loaderVars,
                  loopVars, paneVars, sitePages, response, resCount, failed>>

restVars == <<sessVars, pipelineVars>>

AtRest ==
    /\ req = NoRequest
    /\ browser = "none"
    /\ limit = 0
    /\ total = 0
    /\ feed = <<>>
    /\ loaded = 0
    /\ stale = FALSE
    /\ tries = 0
    /\ n = 0
    /\ seen = 0
    /\ stagnant = 0
    /\ unchanged = 0
    /\ take = 0
    /\ i = 0
    /\ data = <<>>
    /\ lastName = Null
    /\ name = ""
    /\ place = NoPlace
    /\ email = Null
    /\ html = <<>>
    /\ anchors = <<>>
    /\ contactHref = Null
    /\ html2 = <<>>
    /\ visited = <<>>
    /\ pane = 0
    /\ pending = <<>>
    /\ sitePages = 0
    /\ response = NoResponse
    /\ resCount = 0
    /\ failed = "none"

\* JavaScript values of the reviews field
NumberValue(k) == [kind |-> "number", v |-> k, s |-> <<>>]
StringValue(cs) == [kind |-> "string", v |-> 0, s |-> cs]
NaNValue  == [kind |-> "NaN", v |-> 0, s |-> <<>>]
NullValue == [kind |-> "null", v |-> 0, s |-> <<>>]

\* x || 0 : 0, NaN, null and "" are falsy
OrZero(x) ==
    IF \/ x.kind \in {"NaN", "null"}
       \/ x.kind = "number" /\ x.v = 0
       \/ x.kind = "string" /\ x.s = <<>>
      THEN NumberValue(0) ELSE x

MaxLabel == 3         \* most characters of an aria-label

Digits == {"0", "1", "2", "3", "4", "5", "6", "7", "8", "9"}

DigitValue(c) ==
    CASE c = "0" -> 0 [] c = "1" -> 1 [] c = "2" -> 2 [] c = "3" -> 3
      [] c = "4" -> 4 [] c = "5" -> 5 [] c = "6" -> 6 [] c = "7" -> 7
      [] c = "8" -> 8 [] c = "9" -> 9

\* Characters of an aria-label; the word "reviews" counts as one.
LabelChars == {"1", "2", ",", ".", " ", "reviews"}

\* aria-label of the button of the pane ("" without one)
Labels ==
    UNION {[1..k -> LabelChars] : k \in 0..MaxLabel}
    \cup {<<"1", ",", "2", "3", "4", " ", "reviews">>}

\* qsa("button").find(b => (b.getAttribute("aria-label") || "")
\*                            .toLowerCase().includes("reviews"))
HasReviews(lab) == \E k \in 1..Len(lab) : lab[k] = "reviews"

\* the character class [\d,\.]
IsRunChar(c) == c \in Digits \cup {",", "."}

NoMatch == <<>>

\* label.match(/[\d,\.]+/) : the first maximal run of digits, commas and dots
FirstRun(lab) ==
    LET starts == {k \in 1..Len(lab) : IsRunChar(lab[k])} IN
      IF starts = {} THEN NoMatch
      ELSE LET a == CHOOSE k \in starts : \A j \in starts : k <= j
               ends == {e \in a..Len(lab) : \A j \in a..e : IsRunChar(lab[j])}
               b == CHOOSE e \in ends : \A j \in ends : j <= e
           IN SubSeq(lab, a, b)

\* m[0].replace(/[,\.\s]/g, "") / m[1].replace(/[,.]/g, "")
StripSeparators(run) == SelectSeq(run, LAMBDA c : c \notin {",", ".", " "})

RECURSIVE Decimal(_)
Decimal(ds) ==
    IF ds = <<>> THEN 0
    ELSE 10 * Decimal(SubSeq(ds, 1, Len(ds) - 1)) + DigitValue(ds[Len(ds)])

\* parseInt(digits, 10) : NaN for the empty string
ParseInt(ds) == IF ds = <<>> THEN NaNValue ELSE NumberValue(Decimal(ds))

\* stall:        let reviews = 0;   if (revBtn) { if (m) reviews = parseInt(...) }
\* fast:         let reviews = "";  if (reviewsBtn) reviews = m ? m[1].replace(...) : ""
\* email, plain: let reviews = null; if (reviewsBtn) reviews = m ? parseInt(...) : null
ReviewsRead(v, lab) ==
    LET m == FirstRun(lab)
        unset == CASE v = "stall" -> NumberValue(0)
                   [] v = "fast"  -> StringValue(<<>>)
                   [] OTHER       -> NullValue
    IN IF HasReviews(lab) /\ m # NoMatch
         THEN IF v = "fast" THEN StringValue(StripSeparators(m))
                            ELSE ParseInt(StripSeparators(m))
         ELSE unset

\* fast: data.push(place);   the others: reviews: place.reviews || 0
ReviewsPushed(v, r) == IF v = "fast" THEN r ELSE OrZero(r)

ReviewsInit ==
    /\ NoSessions
    /\ AtRest
    /\ variant \in Variants
    /\ pc = "pane"
    /\ label \in Labels
    /\ reviews = Null
    /\ authority = Null
    /\ website = Null

\* const place = await page.evaluate(() => { ... return { ..., reviews } })
ReadReviews ==
    /\ pc = "pane"
    /\ reviews' = ReviewsRead(variant, label)
    /\ pc' = "read"
    /\ UNCHANGED <<restVars, label, authority, website>>

\* data.push({ ..., reviews: place.reviews || 0 })  /  data.push(place)
PushReviews ==
    /\ pc = "read"
    /\ reviews' = ReviewsPushed(variant, reviews)
    /\ pc' = "pushed"
    /\ UNCHANGED <<restVars, label, authority, website>>

ReviewsNext == ReadReviews \/ PushReviews

ReviewsSpec == ReviewsInit /\ [][ReviewsNext]_vars

-----------------------------------------------------------------------------
(* The fields read from the detail pane: the website *)

MaxHref == 4          \* most tokens of an href

\* Pieces of an href: the scheme https:// (the pattern https?:\/\/), runs of
\* characters other than white space and quotes, and a space.
HrefTokens == {"https://", "track.example/redirect?u=", "acme.test/", " "}

\* href of a[data-item-id="authority"] (<<>> : no anchor, or an empty href)
Authorities == UNION {[1..k -> HrefTokens] : k \in 0..MaxHref}

\* website.includes("http")
IncludesHttp(h) == \E k \in 1..Len(h) : h[k] = "https://"

\* the character class [^\s"]
IsUrlChar(t) == t # " "

\* website.match(/https?:\/\/[^\s"]+/) : the first place where a scheme is
\* followed by a character of the class, up to the next white space or quote
UrlMatch(h) ==
    LET starts == {k \in 1..(Len(h) - 1) :
                      h[k] = "https://" /\ IsUrlChar(h[k + 1])} IN
      IF starts = {} THEN NoMatch
      ELSE LET a == CHOOSE k \in starts : \A j \in starts : k <= j
               ends == {e \in (a + 1)..Len(h) :
                           \A j \in (a + 1)..e : IsUrlChar(h[j])}
               b == CHOOSE e \in ends : \A j \in ends : j <= e
           IN SubSeq(h, a, b)

\* stall, fast:  let website = (href) || "";     email, plain:  ... || null;
\* if (website && website.includes("http")) {
\*     website = website.match(/https?:\/\/[^\s"]+/)?.[0] || website; }
WebsiteRead(v, h) ==
    IF h = <<>>
      THEN IF v \in {"stall", "fast"} THEN StringValue(<<>>) ELSE NullValue
      ELSE IF IncludesHttp(h) /\ UrlMatch(h) # NoMatch
             THEN StringValue(UrlMatch(h))
             ELSE StringValue(h)

\* fast: data.push(place);   the others: website: place.website || ""
WebsitePushed(v, w) ==
    IF v # "fast" /\ w.kind = "null" THEN StringValue(<<>>) ELSE w

WebsiteInit ==
    /\ NoSessions
    /\ AtRest
    /\ variant \in Variants
    /\ pc = "pane"
    /\ authority \in Authorities
    /\ website = Null
    /\ label = Null
    /\ reviews = Null

\* const place = await page.evaluate(() => { ... return { ..., website } })
ReadWebsite ==
    /\ pc = "pane"
    /\ website' = WebsiteRead(variant, authority)
    /\ pc' = "read"
    /\ UNCHANGED <<restVars, label, reviews, authority>>

\* data.push({ ..., website: place.website || "" })  /  data.push(place)
PushWebsite ==
    /\ pc = "read"
    /\ website' = WebsitePushed(variant, website)
    /\ pc' = "pushed"
    /\ UNCHANGED <<restVars, label, reviews, authority>>

WebsiteNext == ReadWebsite \/ PushWebsite

WebsiteSpec == WebsiteInit /\ [][WebsiteNext]_vars

-----------------------------------------------------------------------------
(* loadEnough on its own, over a feed whose count moves both ways *)

\* the targets handed to loadEnough: within reach of the feed and beyond it
Targets == {Num(k) : k \in 1..(MaxFeed + 1)}

LoaderInit ==
    /\ NoSessions
    /\ variant \in Variants
    /\ req = NoRequest
    /\ pc = "measure"
    /\ browser = "open"
    /\ limit \in Targets
    /\ total = MaxFeed
    /\ feed = <<>>
    /\ loaded \in 0..MaxFeed
    /\ stale = FALSE
    /\ tries = 0
    /\ n = 0
    /\ seen = 0
    /\ stagnant = 0
    /\ unchanged = 0
    /\ take = 0
    /\ i = 0
    /\ data = <<>>
    /\ lastName = Null
    /\ name = ""
    /\ place = NoPlace
    /\ email = Null
    /\ html = <<>>
    /\ anchors = <<>>
    /\ contactHref = Null
    /\ html2 = <<>>
    /\ visited = <<>>
    /\ label = Null
    /\ reviews = Null
    /\ authority = Null
    /\ website = Null
    /\ pane = 0
    /\ pending = <<>>
    /\ sitePages = 0
    /\ response = NoResponse
    /\ resCount = 0
    /\ failed = "none"

\* Between a scroll and the next measurement the feed renders fewer entries
\* (the list is virtualised); loadEnough only reads the count.
FeedDrops ==
    /\ pc = "measure"
    /\ tries > 0
    /\ \E k \in 0..(loaded - 1) : loaded' = k
    /\ UNCHANGED <<sessVars, fieldVars, siteVars, variant, req, pc, browser,
                   limit, total, feed, stale, loaderVars, loopVars, paneVars,
                   sitePages, response, resCount, failed>>

LoaderNext == Measure \/ Scroll \/ FeedDrops

LoaderSpec == LoaderInit /\ [][LoaderNext]_vars

\* ---------------------------------------------------------------------------
\* Two calls of the handler in flight at once (src/server.js 118-307).  Every
\* await is a point where the other call may run.  No listing fails and every
\* pane is on time here, so that a call running alone has exactly one answer.
\* ---------------------------------------------------------------------------

MaxBatch == 2

\* the two calls
Reqs == {1, 2}

\* (mutant) browser, data and lastName declared at module level, one binding
\* for every call
ScopeOfModule(r) == 0

\* Where a variable of the handler lives: browser, data and lastName are
\* declared with let/const inside the async callback, one binding per call.
Scope(r) == r

Scopes == {Scope(r) : r \in Reqs}

\* the listing names of one query, in feed order
Batches == UNION {[1..k -> {"A", "B"}] : k \in 0..MaxBatch}

\* What the loop of 208-299 collects from a feed when nothing else runs.
RECURSIVE Alone(_, _, _)
Alone(fd, last, acc) ==
    IF fd = <<>> THEN acc
    ELSE IF Skipped(Head(fd), last) THEN Alone(Tail(fd), last, acc)
    ELSE Alone(Tail(fd), Head(fd), Append(acc, Head(fd)))

\* the instance behind the variable  browser  of call r, 0 before the launch
BrowserOf(r) == hBrowser[Scope(r)]

\* a page lives as long as the instance it was opened in
PageAlive(r) == hPage[r] # 0 /\ instances[hPage[r]].open

\* the call stops at a rejected await: there is no catch around the loop
Rejects(r) ==
    /\ hAt' = [hAt EXCEPT ![r] = "rejected"]
    /\ UNCHANGED <<hFeed, hBrowser, hData, hLastName, hPage, hI, hResponse,
                   instances>>

\* for (...; i < take; i++)  and, past the loop,  res.json({success, results})
Iterate(r, idx, d) ==
    /\ hI' = [hI EXCEPT ![r] = idx]
    /\ IF idx < Len(hFeed[r])
       THEN /\ hAt' = [hAt EXCEPT ![r] = "heading"]
            /\ hResponse' = hResponse
       ELSE /\ hAt' = [hAt EXCEPT ![r] = "close"]
            /\ hResponse' = [hResponse EXCEPT ![r] = Success(d)]

ConcInit ==
    /\ AtRest
    /\ variant = "stall"
    /\ pc = "calls"
    /\ label = Null /\ reviews = Null /\ authority = Null /\ website = Null
    /\ hAt = [r \in Reqs |-> "launch"]
    /\ hFeed \in [Reqs -> Batches]
    /\ hBrowser = [s \in Scopes |-> 0]
    /\ hData = [s \in Scopes |-> <<>>]
    /\ hLastName = [s \in Scopes |-> Null]
    /\ hPage = [r \in Reqs |-> 0]
    /\ hI = [r \in Reqs |-> 0]
    /\ hResponse = [r \in Reqs |-> NoResponse]
    /\ instances = <<>>
    /\ hGone = {}

\* browser = await puppeteer.launch({...})
CallLaunch(r) ==
    /\ hAt[r] = "launch"
    /\ instances' = Append(instances, [owner |-> r, open |-> TRUE])
    /\ hBrowser' = [hBrowser EXCEPT ![Scope(r)] = Len(instances) + 1]
    /\ hAt' = [hAt EXCEPT ![r] = "newPage"]
    /\ UNCHANGED <<hFeed, hData, hLastName, hPage, hI, hResponse>>
    /\ UNCHANGED <<hGone, fieldVars, pipelineVars, pc>>

\* const page = await browser.newPage()
CallNewPage(r) ==
    /\ hAt[r] = "newPage"
    /\ IF instances[BrowserOf(r)].open
       THEN /\ hPage' = [hPage EXCEPT ![r] = BrowserOf(r)]
            /\ hAt' = [hAt EXCEPT ![r] = "take"]
            /\ UNCHANGED <<hFeed, hBrowser, hData, hLastName, hI, hResponse,
                           instances>>
       ELSE Rejects(r)
    /\ UNCHANGED <<hGone, fieldVars, pipelineVars, pc>>

\* const data = [];  const take = Math.min(await page.$$eval(...), limit);
\* let lastName = null;  for (let i = 0; ...
CallTake(r) ==
    /\ hAt[r] = "take"
    /\ IF PageAlive(r)
       THEN /\ hData' = [hData EXCEPT ![Scope(r)] = <<>>]
            /\ hLastName' = [hLastName EXCEPT ![Scope(r)] = Null]
            /\ Iterate(r, 0, <<>>)
            /\ UNCHANGED <<hFeed, hBrowser, hPage, instances>>
       ELSE Rejects(r)
    /\ UNCHANGED <<hGone, fieldVars, pipelineVars, pc>>

\* the click, the wait for the heading and the read of the name, then
\* if (!name || name === lastName) continue;  lastName = name;
CallHeading(r) ==
    /\ hAt[r] = "heading"
    /\ IF PageAlive(r)
       THEN LET nm == hFeed[r][hI[r] + 1] IN
            IF Skipped(nm, hLastName[Scope(r)])
            THEN /\ Iterate(r, hI[r] + 1, hData[Scope(r)])
                 /\ UNCHANGED <<hFeed, hBrowser, hData, hLastName, hPage,
                                instances>>
            ELSE /\ hLastName' = [hLastName EXCEPT ![Scope(r)] = nm]
                 /\ hAt' = [hAt EXCEPT ![r] = "extract"]
                 /\ UNCHANGED <<hFeed, hBrowser, hData, hPage, hI, hResponse,
                                instances>>
       ELSE Rejects(r)
    /\ UNCHANGED <<hGone, fieldVars, pipelineVars, pc>>

\* const place = await page.evaluate(...);  data.push({name: place.name, ...})
CallPush(r) ==
    /\ hAt[r] = "extract"
    /\ IF PageAlive(r)
       THEN LET d == Append(hData[Scope(r)], hFeed[r][hI[r] + 1]) IN
            /\ hData' = [hData EXCEPT ![Scope(r)] = d]
            /\ Iterate(r, hI[r] + 1, d)
            /\ UNCHANGED <<hFeed, hBrowser, hLastName, hPage, instances>>
       ELSE Rejects(r)
    /\ UNCHANGED <<hGone, fieldVars, pipelineVars, pc>>

\* if (browser) await browser.close().catch(() => {})
CallClose(r) ==
    /\ hAt[r] = "close"
    /\ instances' = [instances EXCEPT ![BrowserOf(r)].open = FALSE]
    /\ hAt' = [hAt EXCEPT ![r] = "done"]
    /\ UNCHANGED <<hFeed, hBrowser, hData, hLastName, hPage, hI, hResponse>>
    /\ UNCHANGED <<hGone, fieldVars, pipelineVars, pc>>

\* The caller of call r disconnects while the call is in flight.  The handler
\* registers no listener on req or res (no req.on("close"), no abort signal),
\* so nothing of the call changes.
CallerCloses(r) ==
    /\ hAt[r] \notin {"done", "rejected"}
    /\ r \notin hGone
    /\ hGone' = hGone \cup {r}
    /\ UNCHANGED <<hAt, hFeed, hBrowser, hData, hLastName, hPage, hI,
                   hResponse, instances>>
    /\ UNCHANGED <<fieldVars, pipelineVars, pc>>

\* One call runs up to its next await.
ConcNext ==
    \/ \E r \in Reqs : CallerCloses(r)
    \/ \E r \in Reqs : CallLaunch(r)
    \/ \E r \in Reqs : CallNewPage(r)
    \/ \E r \in Reqs : CallTake(r)
    \/ \E r \in Reqs : CallHeading(r)
    \/ \E r \in Reqs : CallPush(r)
    \/ \E r \in Reqs : CallClose(r)

ConcSpec == ConcInit /\ [][ConcNext]_vars

-----------------------------------------------------------------------------
(* Properties *)

\* The request passed auth and validation: the handler computed its limit.
Validated == req.token = "valid" /\ req.query \notin {Null, ""}
                /\ pc \notin {"idle", "auth", "validate"}

\* C1: when max is an integer in [1,50], the results array returned to the
\* caller holds at most max records, whatever the feed holds and whichever
\* listings fail.
C1_ResultsAtMostMax ==
    (/\ response.success
     /\ req.max.kind = "num"
     /\ IsInteger(req.max.h)
     /\ Num(1) <= req.max.h
     /\ req.max.h <= Num(50))
    => Num(Len(response.results)) <= req.max.h

\* C1 witness: the page holds three listings, max is 2, and exactly two records
\* are returned.
C1_Witness ==
    /\ response.success
    /\ req.max = Number(Num(2))
    /\ total = 3
    /\ loaded = 3
    /\ Len(response.results) = 2

\* C2: no run ends with a launched browser still open.
C2_BrowserClosedAtEnd == pc \in Terminal => browser # "open"

\* C3: no two adjacent records of the returned results share a non-empty name.
C3_NoAdjacentDuplicates ==
    response.success =>
        \A k \in 1..(Len(response.results) - 1) :
            response.results[k].name # ""
                => response.results[k].name # response.results[k + 1].name

\* C4: the limit the handler works with lies in [1, 50] for every supplied max.
C4_LimitClamped == Validated => (Num(1) <= limit /\ limit <= Num(50))

\* C5: every request that passed validation ends with a JSON answer, either
\* success:false with a message or success:true with a results array.
C5_AlwaysAnswered ==
    (Validated /\ pc \in Terminal) =>
        /\ response.status = 200
        /\ response.success => response.hasResults
        /\ ~response.success => response.message # ""

\* C6: a request without a query (absent or empty) is answered success:false
\* and never launches a browser nor takes any step of a session.
C6_NoQueryNoBrowser ==
    (req.query \in {Null, ""} /\ pc # "idle") =>
        /\ browser = "none"
        /\ pc \in {"auth", "validate", "done"}
        /\ pc = "done" => (~response.success /\ response.status # 0)

\* C6 witness: an authenticated request with an empty query was answered
\* "query is required" with no browser launched.
C6_Witness ==
    /\ req.token = "valid"
    /\ req.query = ""
    /\ pc = "done"
    /\ response = [status |-> 200, success |-> FALSE, hasResults |-> FALSE,
                   results |-> <<>>, message |-> "query is required"]
    /\ browser = "none"

\* The failures confined to one listing iteration.
IterationFailures == {"click", "detached", "heading", "nameRead", "extract"}

\* C7: when the last failure of a request was confined to one listing
\* iteration, the request still ends with success:true.
C7_IterationFailureSkips ==
    (pc \in Terminal /\ failed \in IterationFailures) => response.success

C9_EveryWaitBounded == pc \in SuspendPoints => TimeoutInForce > 0

\* C10: loadEnough does not poll on once the count was unchanged for 6
\* consecutive polls below the target.
C10_StallReturns == pc \in {"measure", "scroll"} => unchanged <= StallLimit

\* C11: against a feed of exactly 3 entries with pairwise distinct non-empty
\* names that never grows nor re-renders, a request with max=5 none of whose
\* steps failed is answered success:true with exactly 3 records, one per entry
\* in feed order.
C11_ThreeDistinctEntries ==
    (/\ pc \in Terminal
     /\ Validated
     /\ req.max = Number(Num(5))
     /\ total = 3
     /\ loaded = 3
     /\ ~stale
     /\ feed = <<"A", "B", "C">>
     /\ failed = "none")
    => /\ response.success
       /\ response.message = ""
       /\ Len(response.results) = 3
       /\ \A k \in 1..3 : /\ response.results[k].src = k
                           /\ response.results[k].name = feed[k]

\* The steps of the website resolution that can fail before the page is closed:
\* opening the page, the homepage navigation, the contact-link resolution and
\* the contact-page navigation.
ResolverSteps == {"siteNew", "siteHome", "siteContact"}

\* C12: when a step of the website resolution fails, the record of the listing
\* is appended with the fields read from the pane and an empty email, and the
\* loop goes on with the next index (or ends with success:true).
C12_ResolverNeverFailsListing ==
    [][(pc \in ResolverSteps /\ pc' \in {"click", "finally", "rejected"}) =>
          /\ data' = Append(data, [name |-> place.name, src |-> place.src,
                                    website |-> place.website, email |-> ""])
          /\ i' = i + 1
          /\ IF InLoop(i + 1, take)
               THEN pc' = "click" /\ response' = response
               ELSE pc' = "finally" /\ response' = Success(data')]_vars

\* C12 witness: a step of the resolution failed for a listing with a website;
\* its record was appended with an empty email and the loop is at the next
\* listing.
C12_Witness ==
    /\ failed = "site"
    /\ pc = "click"
    /\ i = 1
    /\ Len(data) = 1
    /\ data[1].website # ""
    /\ data[1].name # ""
    /\ data[1].email = ""

\* The positions of the markup whose address does not contain "example."
\* once lower-cased.
Kept(ms) == {k \in 1..Len(ms) : ~IncludesExample(ToLowerCase(ms[k]))}

\* C13: the email returned for a markup never contains "example." (compared
\* case-insensitively); it is the first address of the markup, in order of
\* appearance, that does not contain it, and nothing when there is none; for
\* info@example.com followed by sales@realbiz.com it is sales@realbiz.com.
C13_FirstNonExampleEmail ==
    pc = "email" =>
        /\ email # Null => ~IncludesExample(ToLowerCase(email))
        /\ IF Kept(html) = {}
             THEN email = Null
             ELSE email = html[CHOOSE k \in Kept(html) :
                                   \A j \in Kept(html) : k <= j]
        /\ html = <<"info@example.com", "sales@realbiz.com">>
              => email = "sales@realbiz.com"

\* C13 witness: the function was applied to info@example.com followed by
\* sales@realbiz.com and returned sales@realbiz.com.
C13_Witness ==
    /\ pc = "email"
    /\ html = <<"info@example.com", "sales@realbiz.com">>
    /\ email = "sales@realbiz.com"

\* An anchor that suggests a contact, support or about page by its text or
\* by its href, and that has a link to follow.
SuggestsContactPage(a) ==
    /\ Truthy(a.href)
    /\ TextSuggests(a.text) \/ a.href \in {"/contact", "/about-us"}

\* C14: once the record is pushed after a resolution none of whose steps
\* failed: if the homepage yielded no email and has an anchor suggesting a
\* contact, support or about page, that link, resolved against the homepage
\* URL, was visited and the email is the one of that page; there were at most
\* two navigations, and only one if the homepage yielded an email.
C14_ContactPageFollowed ==
    (pc = "pushed" /\ failed = "none") =>
        /\ (/\ extractEmailFromHtml(html) = Null
            /\ \E k \in 1..Len(anchors) : SuggestsContactPage(anchors[k]))
           => /\ Len(visited) = 2
              /\ \E k \in 1..Len(anchors) :
                    /\ SuggestsContactPage(anchors[k])
                    /\ visited[2] = Resolved(anchors[k].href, place.website)
              /\ Record(place, email) = data[1]
              /\ email = extractEmailFromHtml(html2)
        /\ Len(visited) <= 2
        /\ extractEmailFromHtml(html) # Null => Len(visited) = 1

\* C15: the reviews field of a pushed record is a non-negative integer number:
\* the digits of the first run of digits and separators of the review label,
\* 0 when the label is absent or that run holds no digit; "1,234 reviews"
\* gives 1234.  It is never a string, null or NaN.
C15_ReviewsIsNumber ==
    pc = "pushed" =>
        /\ reviews.kind = "number"
        /\ reviews.v >= 0
        /\ LET ds == SelectSeq(FirstRun(label), LAMBDA c : c \in Digits) IN
              reviews.v = IF HasReviews(label) THEN Decimal(ds) ELSE 0
        /\ label = <<"1", ",", "2", "3", "4", " ", "reviews">>
              => reviews = NumberValue(1234)

\* C16: for the authority href https://track.example/redirect?u=https://acme.test/
\* the website of the record is the wrapped target https://acme.test/ and not
\* the wrapper.
C16_WrappedTargetExtracted ==
    (/\ pc = "pushed"
     /\ authority = <<"https://", "track.example/redirect?u=", "https://",
                      "acme.test/">>)
    => /\ website = StringValue(<<"https://", "acme.test/">>)
       /\ website # StringValue(authority)

\* C17: two calls of the handler interleaved at their awaits in any order do
\* not touch each other: none of them is rejected because of the other, the
\* page of each is a page of the browser instance that call launched, and what
\* a call answers is what it answers running alone on the same feed.
C17_CallsIsolated ==
    \A r \in Reqs :
        /\ hAt[r] # "rejected"
        /\ hPage[r] # 0 => instances[hPage[r]].owner = r
        /\ hResponse[r] # NoResponse =>
               hResponse[r] = Success(Alone(hFeed[r], Null, <<>>))

\* both calls are inside their loops at once, each past its first listing
C17_Witness ==
    /\ pc = "calls"
    /\ hFeed[1] = <<"A", "B">> /\ hFeed[2] = <<"B", "A">>
    /\ hAt[1] = "extract" /\ hAt[2] = "extract"
    /\ hI[1] = 1 /\ hI[2] = 1
    /\ Len(instances) = 2 /\ instances[1].open /\ instances[2].open

\* C18: the iterator never clicks a handle taken before a re-render of the
\* feed: no request ends on the click of an element the re-render detached.
C18_NoDetachedHandleClicked == failed # "detached"

\* the rejections of a click
ClickFailures == {"click", "detached"}

\* C19: nothing is retried: when the click of a listing fails (the first such
\* failure of a request), that listing is skipped; the same index is not
\* clicked a second time and the request goes on to the next one.
C19_FailedClickSkipsItem ==
    [][(pc = "click" /\ failed \notin ClickFailures /\ failed' \in ClickFailures)
          => /\ i' = i + 1
             /\ pending' = pending
             /\ data' = data
             /\ pc' \in {"click", "finally"}
             /\ resCount' > resCount => response'.success]_vars

\* The state of the orchestrator, in the words of the state machine.
MachineState ==
    CASE pc \in {"idle", "auth", "validate", "launch"} -> "Idle"
      [] pc \in {"newPage", "goto"} -> "BrowserLaunched"
      [] pc \in {"consent", "waitFeed"} -> "Navigated"
      [] pc \in {"measure", "scroll", "take"} -> "FeedReady"
      [] pc \in LoopPcs -> "Iterating"
      [] pc = "finally" -> IF response.success THEN "Done" ELSE "Errored"
      [] pc = "rejected" -> "Errored"
      [] pc = "done" -> IF browser = "none" /\ failed = "none" THEN "Idle"
                                                               ELSE "Closed"
      [] OTHER -> "Unknown"

\* the moves of the state machine
MachineMoves ==
    {<<"Idle", "BrowserLaunched">>, <<"BrowserLaunched", "Navigated">>,
     <<"Navigated", "FeedReady">>, <<"FeedReady", "Iterating">>,
     <<"FeedReady", "Done">>, <<"Iterating", "Done">>,
     <<"Done", "Closed">>, <<"Errored", "Closed">>}
    \cup {<<s, "Errored">> : s \in {"Idle", "BrowserLaunched", "Navigated",
                                     "FeedReady", "Iterating", "Done"}}
    \cup {<<s, s>> : s \in {"Idle", "BrowserLaunched", "Navigated",
                             "FeedReady", "Iterating"}}

\* C20: the orchestrator moves only along Idle, BrowserLaunched, Navigated,
\* FeedReady, Iterating, Done, with Errored reachable from any of them; Errored
\* always answers with an error, every run that launched a browser ends in
\* Closed, nothing of the request happens after Closed, and no listing is
\* opened before the feed was detected.
C20_StateMachine ==
    /\ [][(<<MachineState, MachineState'>>) \in MachineMoves]_vars
    /\ [](MachineState = "Errored" =>
             (response.status = 200 /\ ~response.success
                                    /\ response.message # ""))
    /\ []((pc \in Terminal /\ browser # "none") => browser = "closed")
    /\ [][browser # "closed"]_vars
    /\ []((pending # <<>> \/ pane # 0) =>
             MachineState \in {"Iterating", "Done", "Errored"})

\* C21: once its caller has disconnected, a call opens no further listing of
\* its batch: it does not go on to the click and heading wait of a listing it
\* had not yet started.
C21_DisconnectAborts ==
    [][\A r \in Reqs :
          r \in hGone =>
             ~(hAt'[r] = "heading" /\ (hAt[r] # "heading" \/ hI'[r] # hI[r]))]_vars

\* C22: loadEnough is always within its iteration cap, whatever the count of
\* the feed does, and a measurement whose count is at least the target is never
\* followed by a scroll: the loader returns at that measurement.
C22_LoaderBoundedAndEarly ==
    /\ [](pc \in {"measure", "scroll"} => tries < LoadTries(variant))
    /\ [][(pc = "measure" /\ Num(loaded) >= limit) => pc' # "scroll"]_vars

\* C22 witness: the stall handler at its 40th measurement, the count having
\* moved often enough never to stall and never having reached the target.
C22_Witness ==
    /\ variant = "stall"
    /\ pc = "measure"
    /\ tries = LoadTries("stall") - 1
    /\ Num(loaded) < limit

\* C23: a detail pane without the review marker still gives a record, and its
\* review count is the number 0.
C23_MissingReviewsIsZero ==
    (pc = "pushed" /\ ~HasReviews(label)) => reviews = NumberValue(0)

\* C24: the record appended in the iteration of index i was read from the
\* detail pane of the listing clicked in that iteration, never from the pane
\* still showing an earlier listing.
C24_RecordFromClickedListing ==
    [][Len(data') > Len(data) => data'[Len(data')].src = i + 1]_vars

\* C25: in the deduplicating handler the name of every appended record is the
\* name that was compared with and stored into lastName in that iteration:
\* right after an append, lastName is the name of the last record.
C25_CursorIsLastRecordName ==
    [][(variant = "stall" /\ Len(data') > Len(data))
          => data'[Len(data')].name = lastName']_vars

\* C26: a session never holds more than one page opened for the email
\* resolution, and none is left open when the next listing is clicked.
C26_SitePageClosedPerListing ==
    /\ sitePages <= 1
    /\ pc = "click" => sitePages = 0

\* C27: a request that passed authentication is answered exactly once: never
\* twice at any moment, and once when the handler has ended.
C27_ExactlyOneResponse ==
    /\ resCount <= 1
    /\ (req.token = "valid" /\ pc \in Terminal) => resCount = 1

\* C28: the deduplicating handler never appends a record with an empty name
\* and never changes lastName on an empty name; every handler without the
\* duplicate check appends a pane that yields an empty name as a record with
\* name "".
C28_EmptyNameSkippedOrAppended ==
    /\ [](variant = "stall" =>
            /\ \A k \in 1..Len(data) : data[k].name # ""
            /\ lastName # "")
    /\ [][(variant # "stall" /\ pc = "extract" /\ PaneName = ""
                             /\ pc' \in {"click", "finally"}
                             /\ failed' = failed)
            => /\ Len(data') = Len(data) + 1
               /\ data'[Len(data')].name = ""]_vars

=============================================================================
